---- MODULE Spec2Model ----
(***************************************************************************)
(* Model of the Postgres wire-message framework of                         *)
(* source/extensions/filters/network/postgres_tde/postgres_message.h.      *)
(*                                                                         *)
(* A Buffer::Instance is modelled by its bytes in run-length form: a       *)
(* sequence of runs [fill, size] in which no run is empty and no two       *)
(* neighbouring runs have the same fill, so that two buffers are equal     *)
(* exactly when they hold the same bytes.                                  *)
(*                                                                         *)
(* uint64_t cursors (pos, left) are modelled by the integer congruent to   *)
(* them modulo 2^64 that lies in -2^63 .. 2^63-1: additions and            *)
(* subtractions of small amounts are then plain integer arithmetic and a   *)
(* wrapped-around value is a negative integer; comparisons go through ULt. *)
(***************************************************************************)
EXTENDS Integers, Sequences, FiniteSets, TLC

(***************************************************************************)
(* Bounds of the model.                                                    *)
(***************************************************************************)
MaxData == 4
MaxLength == 4
MaxValidate == 2
BigBlob == 65532

ByteVals == {0, 1}
StartOffsets == {0, 1}

(***************************************************************************)
(* Message::ValidationResult                                               *)
(***************************************************************************)
ValidationFailed == "ValidationFailed"
ValidationOK == "ValidationOK"
ValidationNeedMoreData == "ValidationNeedMoreData"

(***************************************************************************)
(* sizeof(uint16_t), sizeof(uint32_t) / sizeof(int32_t)                    *)
(***************************************************************************)
SizeofU16 == 2
SizeofU32 == 4

(***************************************************************************)
(* Unsigned 64-bit comparison a < b on the representation above.           *)
(***************************************************************************)
ULt(a, b) == IF (a < 0) = (b < 0) THEN a < b ELSE b < 0

(***************************************************************************)
(* Op applied to the value of v, v being evaluated once.                   *)
(***************************************************************************)
Bind(v, Op(_)) == CHOOSE y \in { Op(x) : x \in {v} } : TRUE

(***************************************************************************)
(* Buffer::Instance                                                        *)
(***************************************************************************)
RECURSIVE length(_)
length(buf) == IF buf = <<>> THEN 0 ELSE buf[1].size + length(Tail(buf))

\* Buffer::add of `size` bytes all equal to `fill`.
add(buf, fill, size) ==
  Bind(buf, LAMBDA b :
    IF size = 0 THEN b
    ELSE IF b # <<>> /\ b[Len(b)].fill = fill
         THEN [b EXCEPT ![Len(b)].size = @ + size]
         ELSE Append(b, [fill |-> fill, size |-> size]))

writeByte(buf, b) == add(buf, b, 1)

RECURSIVE byteAt(_, _)
byteAt(buf, p) ==
  IF p < buf[1].size THEN buf[1].fill ELSE byteAt(Tail(buf), p - buf[1].size)

Pow256(n) == IF n = 0 THEN 1 ELSE IF n = 1 THEN 256 ELSE IF n = 2 THEN 65536 ELSE 16777216

\* Buffer::writeBEInt<T>: the w = sizeof(T) bytes of v, most significant first
\* (two's complement for a negative v).
RECURSIVE writeBEInt(_, _, _)
writeBEInt(buf, v, w) ==
  IF w = 0 THEN buf
  ELSE writeBEInt(add(buf, (v \div Pow256(w - 1)) % 256, 1), v % Pow256(w - 1), w - 1)

\* Buffer::peekBEInt<T>(pos) for a range lying inside the buffer.
RECURSIVE peekBEInt(_, _, _)
peekBEInt(buf, p, w) ==
  IF w = 0 THEN 0
  ELSE byteAt(buf, p) * Pow256(w - 1) + peekBEInt(buf, p + 1, w - 1)

\* The bytes buf[from .. from+n) as a buffer of their own.
RECURSIVE slice(_, _, _)
slice(buf, from, n) ==
  IF n = 0 THEN <<>>
  ELSE add(slice(buf, from, n - 1), byteAt(buf, from + n - 1), 1)

(***************************************************************************)
(* Field types and field objects.  A type is a record with the template's  *)
(* name in k; an object carries its type's fields and its value_ member.   *)
(***************************************************************************)
IntT(w) == [k |-> "Int", w |-> w]
Int8 == IntT(1)
Int16 == IntT(2)
Int32 == IntT(4)
ArrayT(T) == [k |-> "Array", of |-> T]
RepeatedT(T) == [k |-> "Repeated", of |-> T]
VarByteNT == [k |-> "VarByteN"]

\* Int<T>(T value), Array(elements), Repeated(elements), VarByteN(data) and the
\* default-constructed VarByteN.
IntField(w, value) == [k |-> "Int", w |-> w, value_ |-> value]
Array(T, elements) == [k |-> "Array", of |-> T, value_ |-> elements]
Repeated(T, elements) == [k |-> "Repeated", of |-> T, value_ |-> elements]
VarByteN(fill, size) == [k |-> "VarByteN", has_value |-> TRUE, fill |-> fill, size |-> size]
VarByteNNull == [k |-> "VarByteN", has_value |-> FALSE, fill |-> 0, size |-> 0]

\* std::make_unique<T>() and the default constructors.
New(T) ==
  IF T.k = "Int" THEN IntField(T.w, 0)
  ELSE IF T.k = "Array" THEN Array(T.of, <<>>)
  ELSE IF T.k = "Repeated" THEN Repeated(T.of, <<>>)
  ELSE VarByteNNull

(***************************************************************************)
(* One entry of the record of calls a validate or a read makes: the field  *)
(* called, pos and left on entry and on return, the result, the count an   *)
(* Array decoded from its prefix (0 elsewhere), the number of elements the *)
(* object holds on return, and whether the call peeked outside the buffer. *)
(***************************************************************************)
Call(f, pos0, left0, result, pos1, left1, size, kept) ==
  [f |-> f, pos0 |-> pos0, left0 |-> left0, result |-> result,
   pos1 |-> pos1, left1 |-> left1, size |-> size, kept |-> kept, ub |-> FALSE]

Ret(result, obj, pos, left, log) ==
  [result |-> result, obj |-> obj, pos |-> pos, left |-> left, log |-> log]

\* Bytes pos .. pos+w-1 lie inside the buffer.
InBuffer(data, pos, w) == pos >= 0 /\ pos + w <= length(data)

(***************************************************************************)
(* Int<T>::validate                                                        *)
(***************************************************************************)
\* An Int<T>::validate that wants one byte more than sizeof(T) in the buffer.
IntValidateOneMore(obj, data, pos, left) ==
  IF ULt(left, obj.w)
  THEN Ret(ValidationFailed, obj, pos, left,
           <<Call("Int", pos, left, ValidationFailed, pos, left, 0, 0)>>)
  ELSE IF ULt(length(data) - pos, obj.w + 1)
  THEN Ret(ValidationNeedMoreData, obj, pos, left,
           <<Call("Int", pos, left, ValidationNeedMoreData, pos, left, 0, 0)>>)
  ELSE Ret(ValidationOK, obj, pos + obj.w, left - obj.w,
           <<Call("Int", pos, left, ValidationOK, pos + obj.w, left - obj.w, 0, 0)>>)

\* An Int<T>::validate that looks at the buffer before it looks at left.
IntValidateBufferFirst(obj, data, pos, left) ==
  IF ULt(length(data) - pos, obj.w)
  THEN Ret(ValidationNeedMoreData, obj, pos, left,
           <<Call("Int", pos, left, ValidationNeedMoreData, pos, left, 0, 0)>>)
  ELSE IF ULt(left, obj.w)
  THEN Ret(ValidationFailed, obj, pos, left,
           <<Call("Int", pos, left, ValidationFailed, pos, left, 0, 0)>>)
  ELSE Ret(ValidationOK, obj, pos + obj.w, left - obj.w,
           <<Call("Int", pos, left, ValidationOK, pos + obj.w, left - obj.w, 0, 0)>>)

IntValidate(obj, data, pos, left) ==
  IF ULt(left, obj.w)
  THEN Ret(ValidationFailed, obj, pos, left,
           <<Call("Int", pos, left, ValidationFailed, pos, left, 0, 0)>>)
  ELSE IF ULt(length(data) - pos, obj.w)
  THEN Ret(ValidationNeedMoreData, obj, pos, left,
           <<Call("Int", pos, left, ValidationNeedMoreData, pos, left, 0, 0)>>)
  ELSE Ret(ValidationOK, obj, pos + obj.w, left - obj.w,
           <<Call("Int", pos, left, ValidationOK, pos + obj.w, left - obj.w, 0, 0)>>)

RECURSIVE FieldValidate(_, _, _, _, _, _)
RECURSIVE ArrayLoop(_, _, _, _, _, _, _, _, _, _, _)
RECURSIVE RepeatedLoop(_, _, _, _, _, _, _)

(***************************************************************************)
(* Array<T>::validate.  ArrayLoop is the for loop from index i on;         *)
(* orig_pos and orig_left are the values saved before the count prefix.    *)
(* The count is peeked without a check that pos lies inside the buffer:    *)
(* g is what a peek outside the buffer yields.                             *)
(***************************************************************************)
\* An element failure that leaves the cursor where the element left it.
ArrayNoRollback(obj, result, pos, left, orig_pos, orig_left) ==
  Ret(result, [obj EXCEPT !.value_ = <<>>], pos, left, <<>>)

\* The branch taken when an element's validate is not OK: pos and left are
\* put back, value_ is cleared and the element's result returned.
ArrayRollback(obj, result, pos, left, orig_pos, orig_left) ==
  Ret(result, [obj EXCEPT !.value_ = <<>>], orig_pos, orig_left, <<>>)

ArrayLoop(obj, data, start_offset, pos, left, i, size, orig_pos, orig_left, g, log) ==
  LET ub == ~InBuffer(data, orig_pos, SizeofU16)
  IN IF i >= size
     THEN Ret(ValidationOK, obj, pos, left,
              log \o <<[Call("Array", orig_pos, orig_left, ValidationOK, pos, left,
                             size, Len(obj.value_)) EXCEPT !.ub = ub]>>)
     ELSE Bind(FieldValidate(New(obj.of), data, start_offset, pos, left, g), LAMBDA r :
            IF r.result # ValidationOK
            THEN Bind(ArrayRollback(obj, r.result, r.pos, r.left, orig_pos, orig_left),
                      LAMBDA f :
                        Ret(f.result, f.obj, f.pos, f.left,
                            log \o r.log
                                \o <<[Call("Array", orig_pos, orig_left, f.result,
                                           f.pos, f.left, size, Len(f.obj.value_))
                                        EXCEPT !.ub = ub]>>))
            ELSE Bind([obj EXCEPT !.value_ = Append(@, r.obj)], LAMBDA obj1 :
                   Bind(log \o r.log, LAMBDA log1 :
                     ArrayLoop(obj1, data, start_offset, r.pos, r.left, i + 1, size,
                               orig_pos, orig_left, g, log1))))

ArrayValidate(obj, data, start_offset, pos, left, g) ==
  IF ULt(left, SizeofU16)
  THEN Ret(ValidationFailed, obj, pos, left,
           <<Call("Array", pos, left, ValidationFailed, pos, left, 0, Len(obj.value_))>>)
  ELSE IF ULt(length(data) - pos, SizeofU16)
  THEN Ret(ValidationNeedMoreData, obj, pos, left,
           <<Call("Array", pos, left, ValidationNeedMoreData, pos, left, 0,
                  Len(obj.value_))>>)
  ELSE ArrayLoop(obj, data, start_offset, pos + SizeofU16, left - SizeofU16, 0,
                 IF InBuffer(data, pos, SizeofU16)
                 THEN peekBEInt(data, pos, SizeofU16) ELSE g,
                 pos, left, g, <<>>)

(***************************************************************************)
(* Repeated<T>::validate.  RepeatedLoop is the while loop.                 *)
(***************************************************************************)
RepeatedLoop(obj, data, start_offset, pos, left, g, log) ==
  IF left = 0
  THEN Ret(ValidationOK, obj, pos, left, log)
  ELSE Bind(FieldValidate(New(obj.of), data, start_offset, pos, left, g), LAMBDA r :
         IF r.result # ValidationOK
         THEN Ret(ValidationOK, obj, r.pos, r.left, log \o r.log)
         ELSE Bind([obj EXCEPT !.value_ = Append(@, r.obj)], LAMBDA obj1 :
                Bind(log \o r.log, LAMBDA log1 :
                  RepeatedLoop(obj1, data, start_offset, r.pos, r.left, g, log1))))

RepeatedValidate(obj, data, start_offset, pos, left, g) ==
  IF ULt(length(data) - pos, left)
  THEN Ret(ValidationNeedMoreData, obj, pos, left,
           <<Call("Repeated", pos, left, ValidationNeedMoreData, pos, left, 0,
                  Len(obj.value_))>>)
  ELSE Bind(RepeatedLoop(obj, data, start_offset, pos, left, g, <<>>), LAMBDA r :
         Ret(r.result, r.obj, r.pos, r.left,
             r.log \o <<Call("Repeated", pos, left, r.result, r.pos, r.left, 0,
                             Len(r.obj.value_))>>))

\* The validate of a field of any of the types above.
FieldValidate(obj, data, start_offset, pos, left, g) ==
  IF obj.k = "Int" THEN IntValidate(obj, data, pos, left)
  ELSE IF obj.k = "Array" THEN ArrayValidate(obj, data, start_offset, pos, left, g)
  ELSE RepeatedValidate(obj, data, start_offset, pos, left, g)

(***************************************************************************)
(* Sequence<FirstField, Remaining...>::validate and Sequence<>::validate,  *)
(* on the fields from index i on: fields[i] is first_, the rest is         *)
(* remaining_.  The obj of the result is the whole tuple of fields; the    *)
(* kept of its entry is the number of fields of this Sequence.             *)
(***************************************************************************)
\* A Sequence::validate that returns a field's result without putting pos and
\* left back.
RECURSIVE SequenceValidateNoRestore(_, _, _, _, _, _, _)
SequenceValidateNoRestore(fields, i, data, start_offset, pos, left, g) ==
  IF i > Len(fields)
  THEN Ret(ValidationOK, fields, pos, left,
           <<Call("Sequence", pos, left, ValidationOK, pos, left, 0, 0)>>)
  ELSE Bind(FieldValidate(fields[i], data, start_offset, pos, left, g), LAMBDA first :
         LET n == Len(fields) - i + 1
         IN Bind([fields EXCEPT ![i] = first.obj], LAMBDA fields1 :
              IF first.result # ValidationOK
              THEN Ret(first.result, fields1, first.pos, first.left,
                       first.log \o <<Call("Sequence", pos, left, first.result,
                                           first.pos, first.left, 0, n)>>)
              ELSE Bind(SequenceValidateNoRestore(fields1, i + 1, data, start_offset,
                                                  first.pos, first.left, g),
                        LAMBDA remaining :
                          Ret(remaining.result, remaining.obj, remaining.pos,
                              remaining.left,
                              first.log \o remaining.log
                                \o <<Call("Sequence", pos, left, remaining.result,
                                          remaining.pos, remaining.left, 0, n)>>))))

RECURSIVE SequenceValidate(_, _, _, _, _, _, _)
SequenceValidate(fields, i, data, start_offset, pos, left, g) ==
  IF i > Len(fields)
  THEN Ret(ValidationOK, fields, pos, left,
           <<Call("Sequence", pos, left, ValidationOK, pos, left, 0, 0)>>)
  ELSE Bind(FieldValidate(fields[i], data, start_offset, pos, left, g), LAMBDA first :
         LET n == Len(fields) - i + 1
         IN Bind([fields EXCEPT ![i] = first.obj], LAMBDA fields1 :
              IF first.result # ValidationOK
              THEN Ret(first.result, fields1, pos, left,
                       first.log \o <<Call("Sequence", pos, left, first.result,
                                           pos, left, 0, n)>>)
              ELSE Bind(SequenceValidate(fields1, i + 1, data, start_offset,
                                         first.pos, first.left, g),
                        LAMBDA remaining :
                          IF remaining.result # ValidationOK
                          THEN Ret(remaining.result, remaining.obj, pos, left,
                                   first.log \o remaining.log
                                     \o <<Call("Sequence", pos, left, remaining.result,
                                               pos, left, 0, n)>>)
                          ELSE Ret(ValidationOK, remaining.obj, remaining.pos,
                                   remaining.left,
                                   first.log \o remaining.log
                                     \o <<Call("Sequence", pos, left, ValidationOK,
                                               remaining.pos, remaining.left, 0, n)>>))))

\* Some call of the log peeked outside the buffer.
PeekedOutside(log) == \E i \in 1..Len(log) : log[i].ub

(***************************************************************************)
(* read.  A peek outside the buffer, or a value_[i] past the end of the    *)
(* vector, is undefined behaviour: the operators stop there with ub set,   *)
(* and g stands for the value such a peek yields.                          *)
(***************************************************************************)
RRet(obj, pos, left, ub, log) ==
  [obj |-> obj, pos |-> pos, left |-> left, ub |-> ub, log |-> log]

\* Int<T>::read
IntRead(obj, data, pos, left, g) ==
  LET in == InBuffer(data, pos, obj.w)
      v == IF in THEN peekBEInt(data, pos, obj.w) ELSE g
  IN RRet([obj EXCEPT !.value_ = v], pos + obj.w, left - obj.w, ~in,
          <<Call("Int", pos, left, "true", pos + obj.w, left - obj.w, 0, 0)>>)

RECURSIVE FieldRead(_, _, _, _, _)
RECURSIVE ArrayReadLoop(_, _, _, _, _, _, _, _, _, _)
RECURSIVE RepeatedReadLoop(_, _, _, _, _, _, _, _, _)

\* Array<T>::read; ArrayReadLoop is the for loop from index i on.
ArrayReadLoop(obj, data, pos, left, i, size, g, pos0, left0, log) ==
  IF i >= size
  THEN RRet(obj, pos, left, FALSE,
            log \o <<Call("Array", pos0, left0, "true", pos, left, size, Len(obj.value_))>>)
  ELSE IF i >= Len(obj.value_)
  THEN RRet(obj, pos, left, TRUE,
            log \o <<Call("Array", pos0, left0, "true", pos, left, size, Len(obj.value_))>>)
  ELSE Bind(FieldRead(obj.value_[i + 1], data, pos, left, g), LAMBDA r :
         Bind([obj EXCEPT !.value_[i + 1] = r.obj], LAMBDA obj1 :
           Bind(log \o r.log, LAMBDA log1 :
             IF r.ub
             THEN RRet(obj1, r.pos, r.left, TRUE, log1)
             ELSE ArrayReadLoop(obj1, data, r.pos, r.left, i + 1, size, g, pos0, left0,
                                log1))))

ArrayRead(obj, data, pos, left, g) ==
  LET in == InBuffer(data, pos, SizeofU16)
      size == IF in THEN peekBEInt(data, pos, SizeofU16) ELSE g
  IN IF ~in
     THEN RRet(obj, pos + SizeofU16, left - SizeofU16, TRUE,
               <<Call("Array", pos, left, "true", pos + SizeofU16, left - SizeofU16,
                      size, Len(obj.value_))>>)
     ELSE ArrayReadLoop(obj, data, pos + SizeofU16, left - SizeofU16, 0, size, g,
                        pos, left, <<>>)

\* Repeated<T>::read; RepeatedReadLoop is the for loop from index i on.
RepeatedReadLoop(obj, data, pos, left, i, g, pos0, left0, log) ==
  IF i >= Len(obj.value_)
  THEN RRet(obj, pos, left, FALSE,
            log \o <<Call("Repeated", pos0, left0, "true", pos, left, 0, Len(obj.value_))>>)
  ELSE Bind(FieldRead(obj.value_[i + 1], data, pos, left, g), LAMBDA r :
         Bind([obj EXCEPT !.value_[i + 1] = r.obj], LAMBDA obj1 :
           Bind(log \o r.log, LAMBDA log1 :
             IF r.ub
             THEN RRet(obj1, r.pos, r.left, TRUE, log1)
             ELSE RepeatedReadLoop(obj1, data, r.pos, r.left, i + 1, g, pos0, left0,
                                   log1))))

RepeatedRead(obj, data, pos, left, g) ==
  RepeatedReadLoop(obj, data, pos, left, 0, g, pos, left, <<>>)

FieldRead(obj, data, pos, left, g) ==
  IF obj.k = "Int" THEN IntRead(obj, data, pos, left, g)
  ELSE IF obj.k = "Array" THEN ArrayRead(obj, data, pos, left, g)
  ELSE RepeatedRead(obj, data, pos, left, g)

\* Sequence<FirstField, Remaining...>::read and Sequence<>::read, on the
\* fields from index i on.  Every field's read returns true.
RECURSIVE SequenceRead(_, _, _, _, _, _)
SequenceRead(fields, i, data, pos, left, g) ==
  IF i > Len(fields)
  THEN RRet(fields, pos, left, FALSE, <<>>)
  ELSE Bind(FieldRead(fields[i], data, pos, left, g), LAMBDA first :
         Bind([fields EXCEPT ![i] = first.obj], LAMBDA fields1 :
           IF first.ub
           THEN RRet(fields1, first.pos, first.left, TRUE, first.log)
           ELSE Bind(SequenceRead(fields1, i + 1, data, first.pos, first.left, g),
                     LAMBDA remaining :
                       RRet(remaining.obj, remaining.pos, remaining.left, remaining.ub,
                            first.log \o remaining.log))))

(***************************************************************************)
(* getSize.  Array and Repeated add the element sizes up in a uint16_t.    *)
(***************************************************************************)
IntGetSize(obj) == obj.w

VarByteNGetSize(obj) == (IF obj.has_value THEN obj.size ELSE 0) + SizeofU32

RECURSIVE FieldGetSize(_)
RECURSIVE ElemsGetSize(_, _, _)

\* The loop `for (auto& elem : value_) size += elem->getSize();` from index i
\* on, size being a uint16_t.
ElemsGetSize(value_, i, size) ==
  IF i > Len(value_) THEN size
  ELSE ElemsGetSize(value_, i + 1, (size + FieldGetSize(value_[i])) % 65536)

ArrayGetSize(obj) == SizeofU16 + ElemsGetSize(obj.value_, 1, 0)

RepeatedGetSize(obj) == ElemsGetSize(obj.value_, 1, 0)

FieldGetSize(obj) ==
  IF obj.k = "Int" THEN IntGetSize(obj)
  ELSE IF obj.k = "VarByteN" THEN VarByteNGetSize(obj)
  ELSE IF obj.k = "Array" THEN ArrayGetSize(obj)
  ELSE RepeatedGetSize(obj)

\* Sequence<FirstField, Remaining...>::getSize and Sequence<>::getSize.
RECURSIVE SequenceGetSize(_, _)
SequenceGetSize(fields, i) ==
  IF i > Len(fields) THEN 0
  ELSE FieldGetSize(fields[i]) + SequenceGetSize(fields, i + 1)

(***************************************************************************)
(* write                                                                   *)
(***************************************************************************)
IntWrite(obj, to) == writeBEInt(to, obj.value_, obj.w)

\* A write that encodes the absent value as an empty one.
VarByteNWriteNullAsEmpty(obj, to) ==
  IF obj.has_value
  THEN add(writeBEInt(to, obj.size, SizeofU32), obj.fill, obj.size)
  ELSE writeBEInt(to, 0, SizeofU32)

VarByteNWrite(obj, to) ==
  IF obj.has_value
  THEN add(writeBEInt(to, obj.size, SizeofU32), obj.fill, obj.size)
  ELSE writeBEInt(to, -1, SizeofU32)

RECURSIVE FieldWrite(_, _)
RECURSIVE ElemsWrite(_, _, _)

\* The loop `for (elem : value_) elem->write(to);` from index i on.
ElemsWrite(value_, i, to) ==
  IF i > Len(value_) THEN to
  ELSE Bind(FieldWrite(value_[i], to), LAMBDA to1 : ElemsWrite(value_, i + 1, to1))

ArrayWrite(obj, to) ==
  ElemsWrite(obj.value_, 1, writeBEInt(to, Len(obj.value_) % 65536, SizeofU16))

RepeatedWrite(obj, to) == ElemsWrite(obj.value_, 1, to)

FieldWrite(obj, to) ==
  IF obj.k = "Int" THEN IntWrite(obj, to)
  ELSE IF obj.k = "VarByteN" THEN VarByteNWrite(obj, to)
  ELSE IF obj.k = "Array" THEN ArrayWrite(obj, to)
  ELSE RepeatedWrite(obj, to)

\* Sequence<FirstField, Remaining...>::write and Sequence<>::write.
RECURSIVE SequenceWrite(_, _, _)
SequenceWrite(fields, i, to) ==
  IF i > Len(fields) THEN to
  ELSE Bind(FieldWrite(fields[i], to), LAMBDA to1 : SequenceWrite(fields, i + 1, to1))

(***************************************************************************)
(* Messages.  MessageImpl<Types...> has typed = FALSE, TypedMessage<       *)
(* Identifier, Types...> has typed = TRUE; the zero-field specialisations  *)
(* MessageImpl<> and TypedMessage<Identifier> have fields = <<>>.          *)
(***************************************************************************)
MessageImpl(fields) == [typed |-> FALSE, Identifier |-> 0, fields |-> fields]
TypedMessage(Identifier, fields) ==
  [typed |-> TRUE, Identifier |-> Identifier, fields |-> fields]

\* createMsgBodyReader<Types...>() and the default constructors: every field
\* default-constructed.
DefaultFields(types) == [i \in 1..Len(types) |-> New(types[i])]

\* MessageImpl::validate and MessageImpl<>::validate: the result returned, the
\* new validation_result_, the fields, and the cursor at the end of the call.
MessageValidate(m, vr, data, start_pos, len, g) ==
  IF m.fields = <<>>
  THEN [result |-> ValidationOK, validation_result_ |-> vr, fields |-> m.fields,
        pos |-> start_pos, left |-> len, log |-> <<>>]
  ELSE Bind(SequenceValidate(m.fields, 1, data, start_pos, start_pos, len, g),
            LAMBDA r :
              [result |-> r.result, validation_result_ |-> r.result, fields |-> r.obj,
               pos |-> r.pos, left |-> r.left, log |-> r.log])

\* A read from which the assertion has been dropped.
ReadAssertsNothing(m, vr) == TRUE

\* ASSERT(validation_result_ == ValidationOK) of MessageImpl::read holds;
\* MessageImpl<>::read asserts nothing.
ReadAsserts(m, vr) == m.fields = <<>> \/ vr = ValidationOK

\* MessageImpl::read past its assertion, and MessageImpl<>::read.
MessageRead(m, data, len, g) ==
  IF m.fields = <<>>
  THEN RRet(m.fields, 0, len, FALSE, <<>>)
  ELSE SequenceRead(m.fields, 1, data, 0, len, g)

\* MessageImpl::write(to, identifier) and MessageImpl<>::write(to, identifier)
MessageWriteId(m, to, identifier) ==
  IF m.fields = <<>>
  THEN writeBEInt(writeByte(to, identifier), SizeofU32, SizeofU32)
  ELSE SequenceWrite(m.fields, 1,
         writeBEInt(writeByte(to, identifier),
                    SequenceGetSize(m.fields, 1) + SizeofU32, SizeofU32))

\* isWriteable()
isWriteable(m) == m.typed

\* A write that serialises a message without identifier as well.
MessageWriteUnchecked(m, to) ==
  [assert |-> FALSE, to |-> MessageWriteId(m, to, m.Identifier)]

\* The virtual write(to): TypedMessage::write calls MessageImpl::write(to,
\* Identifier); MessageImpl::write and MessageImpl<>::write are ASSERT(false).
MessageWrite(m, to) ==
  IF m.typed
  THEN [assert |-> FALSE, to |-> MessageWriteId(m, to, m.Identifier)]
  ELSE [assert |-> TRUE, to |-> to]

(***************************************************************************)
(* The messages of the model.                                              *)
(***************************************************************************)
InboundMessages ==
  { MessageImpl(<<>>),
    TypedMessage(81, <<>>),
    MessageImpl(DefaultFields(<<Int8>>)),
    TypedMessage(81, DefaultFields(<<Int16>>)),
    TypedMessage(81, DefaultFields(<<ArrayT(Int8)>>)),
    MessageImpl(DefaultFields(<<ArrayT(Int8), Int8>>)),
    TypedMessage(81, DefaultFields(<<RepeatedT(Int8)>>)),
    MessageImpl(DefaultFields(<<Int8, RepeatedT(Int16)>>)) }

BlobSizes == {0, 1, 2, BigBlob}
Blobs ==
  {VarByteNNull} \cup { VarByteN(IF n = 0 THEN 0 ELSE f, n) : f \in {0, 255}, n \in BlobSizes }
BlobLists == {<<>>} \cup { <<b>> : b \in Blobs } \cup { <<b, c>> : b, c \in Blobs }
Ints == { IntField(1, 7), IntField(2, 258), IntField(4, 66051) }

OutboundFields ==
  Ints \cup Blobs
    \cup { Array(VarByteNT, l) : l \in BlobLists }
    \cup { Repeated(VarByteNT, l) : l \in BlobLists }
    \cup { Array(Int16, <<IntField(2, 258), IntField(2, 3)>>),
           Repeated(Int8, <<IntField(1, 7)>>) }

OutboundFieldLists ==
  {<<>>} \cup { <<f>> : f \in OutboundFields }
    \cup { <<f, h>> : f \in Ints, h \in OutboundFields }

OutboundMessages ==
  { MessageImpl(l) : l \in OutboundFieldLists }
    \cup { TypedMessage(68, l) : l \in OutboundFieldLists }

(***************************************************************************)
(* State.                                                                  *)
(*   msg                 the message object                                *)
(*   validation_result_  its Message::validation_result_                   *)
(*   data                the caller's receive buffer                       *)
(*   start_offset, declared_length                                         *)
(*                       the offset and length the caller passes           *)
(*   to                  the caller's send buffer                          *)
(*   nvalidate           validate calls made so far                        *)
(*   returned            what the most recent validate returned            *)
(*   halted              a fatal assertion or a crash has ended the run    *)
(*   last                the caller's last call: op, what it returned      *)
(*                       (result; ret for getSize), the field it was made  *)
(*                       on (arg, 0 for the message), the cursor at its    *)
(*                       end and the calls it made on fields               *)
(***************************************************************************)
VARIABLES msg, validation_result_, data, start_offset, declared_length,
          to, nvalidate, returned, halted, last

vars == <<msg, validation_result_, data, start_offset, declared_length,
          to, nvalidate, returned, halted, last>>

Last(op, result, arg, ret, pos, left, log) ==
  [op |-> op, result |-> result, arg |-> arg, ret |-> ret,
   pos |-> pos, left |-> left, log |-> log]

NoCall == Last("none", "none", 0, 0, 0, 0, <<>>)

Init ==
  /\ msg \in InboundMessages
  /\ validation_result_ = ValidationNeedMoreData
  /\ data = <<>>
  /\ start_offset \in StartOffsets
  /\ declared_length \in 0..MaxLength
  /\ to = <<>>
  /\ nvalidate = 0
  /\ returned = "none"
  /\ halted = FALSE
  /\ last = NoCall

\* The network layer appends a byte to the receive buffer.
Receive ==
  /\ ~halted
  /\ length(data) < MaxData
  /\ \E b \in ByteVals : data' = add(data, b, 1)
  /\ last' = Last("receive", "none", 0, 0, 0, 0, <<>>)
  /\ UNCHANGED <<msg, validation_result_, start_offset, declared_length, to,
                 nvalidate, returned, halted>>

\* msg.validate(data, start_offset, declared_length)
Validate ==
  /\ ~halted
  /\ nvalidate < MaxValidate
  /\ \E g \in ByteVals :
       \E r \in {MessageValidate(msg, validation_result_, data, start_offset,
                                  declared_length, g)} :
          \E crash \in {FALSE, PeekedOutside(r.log)} :
            /\ msg' = [msg EXCEPT !.fields = r.fields]
            /\ validation_result_' = r.validation_result_
            /\ halted' = crash
            /\ returned' = IF crash THEN "crash" ELSE r.result
            /\ last' = Last("validate", IF crash THEN "crash" ELSE r.result,
                            0, 0, r.pos, r.left, r.log)
  /\ nvalidate' = nvalidate + 1
  /\ UNCHANGED <<data, start_offset, declared_length, to>>

\* msg.read(data, declared_length)
Read ==
  /\ ~halted
  /\ IF ~ReadAsserts(msg, validation_result_)
     THEN /\ halted' = TRUE
          /\ last' = Last("read", "assert", 0, 0, 0, 0, <<>>)
          /\ UNCHANGED msg
     ELSE \E g \in ByteVals :
            \E r \in {MessageRead(msg, data, declared_length, g)} :
               \E crash \in {FALSE, r.ub} :
                 /\ msg' = [msg EXCEPT !.fields = r.obj]
                 /\ halted' = crash
                 /\ last' = Last("read", IF crash THEN "crash"
                                         ELSE IF r.ub THEN "undefined" ELSE "true",
                                 0, 0, r.pos, r.left, r.log)
  /\ UNCHANGED <<validation_result_, data, start_offset, declared_length, to,
                 nvalidate, returned>>

\* msg.write(to) on an empty send buffer.
Write ==
  /\ ~halted
  /\ to = <<>>
  /\ \E r \in {MessageWrite(msg, to)} :
        /\ to' = r.to
        /\ halted' = r.assert
        /\ last' = Last("write", IF r.assert THEN "assert" ELSE "done",
                        0, 0, 0, 0, <<>>)
  /\ UNCHANGED <<msg, validation_result_, data, start_offset, declared_length,
                 nvalidate, returned>>

Next == Receive \/ Validate \/ Read \/ Write

Spec == Init /\ [][Next]_vars

(***************************************************************************)
(* The retry loop of a caller: validate is called at the same offset, and  *)
(* again after more bytes have arrived as long as it has not returned OK   *)
(* or Failed.  The network keeps delivering and the caller keeps retrying. *)
(***************************************************************************)
RetryValidate ==
  /\ ~halted
  /\ returned \notin {ValidationOK, ValidationFailed}
  /\ last.op # "validate"
  /\ \E g \in ByteVals :
       \E r \in {MessageValidate(msg, validation_result_, data, start_offset,
                                  declared_length, g)} :
          \E crash \in {FALSE, PeekedOutside(r.log)} :
            /\ msg' = [msg EXCEPT !.fields = r.fields]
            /\ validation_result_' = r.validation_result_
            /\ halted' = crash
            /\ returned' = IF crash THEN "crash" ELSE r.result
            /\ last' = Last("validate", IF crash THEN "crash" ELSE r.result,
                            0, 0, r.pos, r.left, r.log)
  /\ nvalidate' = nvalidate + 1
  /\ UNCHANGED <<data, start_offset, declared_length, to>>

NextRetry == Receive \/ RetryValidate

SpecRetry ==
  Init /\ [][NextRetry]_vars /\ WF_vars(RetryValidate) /\ WF_vars(Receive)

(***************************************************************************)
(* Serialisation of constructed messages: the message is built from field  *)
(* values and the caller applies write and getSize to it and to its        *)
(* fields, each on an empty send buffer.                                   *)
(***************************************************************************)
InitEncode ==
  /\ msg \in OutboundMessages
  /\ validation_result_ = ValidationNeedMoreData
  /\ data = <<>>
  /\ start_offset = 0
  /\ declared_length = 0
  /\ to = <<>>
  /\ nvalidate = 0
  /\ returned = "none"
  /\ halted = FALSE
  /\ last = NoCall

\* msg.fields[i].write(to)
WriteField ==
  /\ ~halted
  /\ to = <<>>
  /\ \E i \in 1..Len(msg.fields) :
       /\ to' = FieldWrite(msg.fields[i], to)
       /\ last' = Last("field.write", "done", i, 0, 0, 0, <<>>)
  /\ UNCHANGED <<msg, validation_result_, data, start_offset, declared_length,
                 nvalidate, returned, halted>>

\* msg.fields[i].getSize()
GetSizeField ==
  /\ ~halted
  /\ \E i \in 1..Len(msg.fields) :
       last' = Last("field.getSize", "done", i, FieldGetSize(msg.fields[i]), 0, 0, <<>>)
  /\ UNCHANGED <<msg, validation_result_, data, start_offset, declared_length,
                 to, nvalidate, returned, halted>>

\* msg.getSize(), the Sequence's
GetSize ==
  /\ ~halted
  /\ last' = Last("getSize", "done", 0, SequenceGetSize(msg.fields, 1), 0, 0, <<>>)
  /\ UNCHANGED <<msg, validation_result_, data, start_offset, declared_length,
                 to, nvalidate, returned, halted>>

NextEncode == Write \/ WriteField \/ GetSizeField \/ GetSize

SpecEncode == InitEncode /\ [][NextEncode]_vars

(***************************************************************************)
(* Helpers of the properties.                                              *)
(***************************************************************************)
\* The type of a field object, and the fields of a fresh instance of the
\* message type of m.
TypeOf(obj) ==
  IF obj.k = "Int" THEN IntT(obj.w)
  ELSE IF obj.k = "VarByteN" THEN VarByteNT
  ELSE [k |-> obj.k, of |-> obj.of]

FreshFields(m) == [i \in 1..Len(m.fields) |-> New(TypeOf(m.fields[i]))]

\* A field object with every Int value put back to 0: what validate decides,
\* the elements each container holds.
RECURSIVE Shape(_)
Shape(obj) ==
  IF obj.k = "Int" THEN [obj EXCEPT !.value_ = 0]
  ELSE [obj EXCEPT !.value_ = [i \in 1..Len(obj.value_) |-> Shape(obj.value_[i])]]

Shapes(fields) == [i \in 1..Len(fields) |-> Shape(fields[i])]

AllInt(fields) == \A i \in 1..Len(fields) : fields[i].k = "Int"

\* The step is a call of validate.
ValidateStep == nvalidate' = nvalidate + 1

(***************************************************************************)
(* C1.  Round-trip law: when validate returned OK, a read that follows it  *)
(* on the same buffer returns true, and the write of the fields it decoded *)
(* reproduces the payload bytes data[start_offset .. start_offset+length). *)
(* Stated for the messages that have fields and the buffers that hold the  *)
(* whole payload.                                                          *)
(***************************************************************************)
C1_RoundTrip ==
  [][(/\ msg.fields # <<>>
      /\ InBuffer(data, start_offset, declared_length)
      /\ last.op = "validate" /\ last.result = ValidationOK /\ last'.op = "read")
       => /\ last'.result = "true"
          /\ SequenceWrite(msg'.fields, 1, <<>>)
               = slice(data, start_offset, declared_length)]_vars

(***************************************************************************)
(* C2.  For a message of Int fields whose declared length is the size of   *)
(* its fields, validate returns NeedMoreData on every buffer shorter than  *)
(* start_offset + length, also on one shorter than start_offset.  Stated   *)
(* for the messages that have fields.                                      *)
(***************************************************************************)
C2_ShortBuffer ==
  (/\ last.op = "validate"
   /\ msg.fields # <<>>
   /\ AllInt(msg.fields)
   /\ declared_length = SequenceGetSize(msg.fields, 1)
   /\ length(data) < start_offset + declared_length)
    => last.result = ValidationNeedMoreData

(***************************************************************************)
(* C3.  A validate that returns NeedMoreData or Failed leaves every field  *)
(* of the message with exactly the elements it held before the call.      *)
(* Stated for start_offset = 0, where pos never lies past the buffer.       *)
(***************************************************************************)
C3_NoPartialValues ==
  [][(/\ ValidateStep
      /\ start_offset = 0
      /\ last'.result \in {ValidationNeedMoreData, ValidationFailed})
       => msg'.fields = msg.fields]_vars

(***************************************************************************)
(* C4.  validate is idempotent at a fixed offset: after any number of      *)
(* calls the containers of the message hold what a single validate of a    *)
(* fresh instance on the present buffer retains, and after OK every Array  *)
(* holds exactly the count of its prefix.  Stated for start_offset = 0,    *)
(* where pos never lies past the buffer.                                   *)
(***************************************************************************)
C4_Idempotent ==
  (last.op = "validate" /\ start_offset = 0)
    => /\ Shapes(msg.fields)
            = Shapes(MessageValidate([msg EXCEPT !.fields = FreshFields(msg)],
                                     ValidationNeedMoreData, data, start_offset,
                                     declared_length, 0).fields)
       /\ last.result = ValidationOK
            => \A i \in 1..Len(last.log) :
                 last.log[i].f = "Array" => last.log[i].kept = last.log[i].size

(***************************************************************************)
(* C5.  read never returns normally on an instance whose most recent       *)
(* validate did not return OK (never validated, Failed, NeedMoreData): it  *)
(* hits the fatal assertion.  As stated, for every instantiation.          *)
(***************************************************************************)
C5_ReadNeedsOK ==
  (last.op = "read" /\ returned # ValidationOK) => last.result = "assert"

(***************************************************************************)
(* C5, amended.  On a message with at least one field, read hits the fatal *)
(* assertion whenever the most recent validate did not return OK; the read *)
(* of the zero-field MessageImpl<> asserts nothing and returns true.       *)
(***************************************************************************)
C5_ReadNeedsOKWithFields ==
  (last.op = "read" /\ returned # ValidationOK)
    => IF msg.fields = <<>>
       THEN last.result = "true" /\ ~halted
       ELSE last.result = "assert" /\ halted

C5_Witness ==
  /\ last.op = "read"
  /\ last.result = "assert"
  /\ returned = ValidationNeedMoreData
  /\ nvalidate > 0

(***************************************************************************)
(* C6.  isWriteable() predicts write(to): a message without identifier     *)
(* (the zero-field one included) reports false and its write hits the      *)
(* fatal assertion without appending a byte; a TypedMessage reports true   *)
(* and its write completes.                                                *)
(***************************************************************************)
C6_WriteableDecidesWrite ==
  /\ isWriteable(msg) = msg.typed
  /\ last.op = "write"
       => IF isWriteable(msg)
          THEN last.result = "done" /\ ~halted /\ length(to) > 0
          ELSE last.result = "assert" /\ halted /\ to = <<>>

C6_Witness ==
  /\ last.op = "write"
  /\ ~msg.typed
  /\ msg.fields # <<>>
  /\ last.result = "assert"

(***************************************************************************)
(* C7.  TypedMessage::write appends the identifier byte, the 4-byte        *)
(* big-endian length payload size + 4, then the fields in declared order;  *)
(* the bytes after the identifier are as many as the length field says;    *)
(* the zero-field typed message appends 5 bytes, identifier and length 4.  *)
(***************************************************************************)
C7_Frame ==
  (last.op = "write" /\ msg.typed)
    => /\ to = SequenceWrite(msg.fields, 1,
                 writeBEInt(writeByte(<<>>, msg.Identifier),
                            length(SequenceWrite(msg.fields, 1, <<>>)) + 4, 4))
       /\ peekBEInt(to, 1, 4) = length(to) - 1
       /\ msg.fields = <<>> => length(to) = 5

(***************************************************************************)
(* C8.  Size additivity: a Sequence's getSize() is the sum of its fields'  *)
(* getSize(), Array::getSize() is 2 + the sum of the element sizes,        *)
(* Repeated::getSize() is the sum of the element sizes, and getSize() is   *)
(* the number of bytes write() appends.                                    *)
(***************************************************************************)
RECURSIVE SumOfSizes(_, _)
SumOfSizes(value_, i) ==
  IF i > Len(value_) THEN 0
  ELSE FieldGetSize(value_[i]) + SumOfSizes(value_, i + 1)

C8_SizeAdditive ==
  /\ last.op = "getSize" => last.ret = SumOfSizes(msg.fields, 1)
  /\ last.op = "field.getSize"
       => LET f == msg.fields[last.arg]
          IN /\ f.k = "Array" => last.ret = 2 + SumOfSizes(f.value_, 1)
             /\ f.k = "Repeated" => last.ret = SumOfSizes(f.value_, 1)
  /\ last.op = "field.write" => length(to) = FieldGetSize(msg.fields[last.arg])
  /\ (last.op = "write" /\ msg.typed)
       => length(to) = 1 + 4 + SequenceGetSize(msg.fields, 1)

(***************************************************************************)
(* C9.  Array atomicity: Array::validate on a buffer that holds the count  *)
(* N and only k < N complete elements returns NeedMoreData, with pos and   *)
(* left as before the count prefix and no element retained.  The arrays    *)
(* are those of Int elements of width w; a buffer holds k complete         *)
(* elements when k * w of its bytes follow the prefix.                     *)
(***************************************************************************)
\* Entry e of the log of a validate is an Array::validate on such a buffer.
HoldsFewer(e, w) ==
  /\ e.f = "Array"
  /\ InBuffer(data, e.pos0, SizeofU16)
  /\ (length(data) - e.pos0 - SizeofU16) \div w < peekBEInt(data, e.pos0, SizeofU16)

\* The width of the elements of the Array that is the message's first field.
ArrayElemWidth == msg.fields[1].of.w

C9_ArrayAtomic ==
  last.op = "validate"
    => \A i \in 1..Len(last.log) :
         HoldsFewer(last.log[i], ArrayElemWidth)
           => /\ last.log[i].result = ValidationNeedMoreData
              /\ last.log[i].pos1 = last.log[i].pos0
              /\ last.log[i].left1 = last.log[i].left0
              /\ last.log[i].kept = 0

(***************************************************************************)
(* C9, amended.  Called with left >= 2 on such a buffer, Array::validate   *)
(* returns NeedMoreData when left - 2 covers k + 1 elements and Failed     *)
(* when it does not; either way pos and left are as before the count       *)
(* prefix and no element is retained.  With left < 2 it returns Failed     *)
(* and leaves pos and left alone.                                          *)
(***************************************************************************)
C9_ArrayAtomicOrFailed ==
  last.op = "validate"
    => \A i \in 1..Len(last.log) :
         LET e == last.log[i]
             w == ArrayElemWidth
             k == (length(data) - e.pos0 - SizeofU16) \div w
         IN HoldsFewer(e, w)
              => /\ e.pos1 = e.pos0
                 /\ e.left1 = e.left0
                 /\ e.result = IF e.left0 - SizeofU16 >= (k + 1) * w
                               THEN ValidationNeedMoreData ELSE ValidationFailed
                 /\ e.left0 >= SizeofU16 => e.kept = 0

C9_Witness ==
  /\ last.op = "validate"
  /\ \E i \in 1..Len(last.log) :
       /\ HoldsFewer(last.log[i], ArrayElemWidth)
       /\ length(data) - last.log[i].pos0 - SizeofU16 >= ArrayElemWidth
       /\ last.log[i].result = ValidationNeedMoreData

(***************************************************************************)
(* C10.  Optional blob encoding: VarByteN::write appends exactly the four  *)
(* bytes of -1 when the value is absent, and getSize() is 4; when a value  *)
(* of L bytes is present (L = 0 included) it appends the 4-byte big-endian *)
(* L and then exactly the L bytes, and getSize() is L + 4.                 *)
(***************************************************************************)
C10_OptionalBlob ==
  \A i \in 1..Len(msg.fields) :
    LET f == msg.fields[i]
    IN f.k = "VarByteN"
         => /\ (last.op = "field.getSize" /\ last.arg = i)
                 => last.ret = IF f.has_value THEN f.size + 4 ELSE 4
            /\ (last.op = "field.write" /\ last.arg = i)
                 => IF f.has_value
                    THEN /\ length(to) = f.size + 4
                         /\ peekBEInt(to, 0, 4) = f.size
                         /\ to = add(slice(to, 0, 4), f.fill, f.size)
                    ELSE to = <<[fill |-> 255, size |-> 4]>>

C10_Witness ==
  /\ last.op = "field.write"
  /\ msg.fields[last.arg].k = "VarByteN"
  /\ msg.fields[last.arg].has_value
  /\ msg.fields[last.arg].size = 2
  /\ msg.fields[last.arg].fill = 255

(***************************************************************************)
(* The entries of Sequence::validate calls in a log.  The Sequence of the   *)
(* fields from index i on returns after the ones of the later fields, so    *)
(* the entry of field index i is the i-th from the end.                    *)
(***************************************************************************)
IsSequenceEntry(e) == e.f = "Sequence"

SequenceEntries(log) == SelectSeq(log, IsSequenceEntry)

\* The index in a log of its first Sequence entry (0 when there is none).
FirstSequenceEntry(log) ==
  IF \E k \in 1..Len(log) : log[k].f = "Sequence"
  THEN CHOOSE k \in 1..Len(log) :
         /\ log[k].f = "Sequence"
         /\ \A j \in 1..(k - 1) : log[j].f # "Sequence"
  ELSE 0

(***************************************************************************)
(* C11.  Sequence::validate is transactional: the fields are attempted in  *)
(* declared order; at the first field whose validate is not OK no later    *)
(* field is called, that field's result is returned and pos and left are   *)
(* what they were on entry of the Sequence; when every field returns OK    *)
(* pos and left have moved by the bytes the fields consumed.               *)
(***************************************************************************)
C11_SequenceTransactional ==
  (last.op = "validate" /\ msg.fields # <<>>)
    => LET log == last.log
           S == SequenceEntries(log)
           m == Len(S)
           n == Len(msg.fields)
           first == FirstSequenceEntry(log)
           At(i) == S[m + 1 - i]
           \* field i was called where Sequence i was entered, returned OK and
           \* left the cursor where Sequence i + 1 was entered
           FieldOK(i) ==
             \E k \in 1..Len(log) :
               /\ log[k].f = msg.fields[i].k
               /\ log[k].result = ValidationOK
               /\ log[k].pos0 = At(i).pos0 /\ log[k].left0 = At(i).left0
               /\ log[k].pos1 = At(i + 1).pos0 /\ log[k].left1 = At(i + 1).left0
       IN /\ m \in 1..(n + 1)
          /\ \A i \in 1..m : At(i).kept = n - i + 1
          /\ At(1).pos0 = start_offset /\ At(1).left0 = declared_length
          /\ last.pos = At(1).pos1 /\ last.left = At(1).left1
          /\ last.result \in {At(1).result, "crash"}
          /\ \A k \in (first + 1)..Len(log) : log[k].f = "Sequence"
          /\ \A i \in 1..m : At(i).result = At(1).result
          /\ \A i \in 1..(m - 1) : FieldOK(i)
          /\ IF At(1).result # ValidationOK
             THEN /\ m <= n
                  /\ first > 1
                  /\ log[first - 1].f = msg.fields[m].k
                  /\ log[first - 1].result = At(1).result
                  /\ log[first - 1].pos0 = At(m).pos0
                  /\ log[first - 1].left0 = At(m).left0
                  /\ \A i \in 1..m : /\ At(i).pos1 = At(i).pos0
                                     /\ At(i).left1 = At(i).left0
             ELSE /\ m = n + 1
                  /\ \A i \in 1..m : /\ At(i).pos1 = At(m).pos0
                                     /\ At(i).left1 = At(m).left0
                                     /\ At(i).pos1 - At(i).pos0
                                          = At(i).left0 - At(i).left1

\* The second field stopped a Sequence whose first field had consumed bytes.
C11_Witness ==
  /\ last.op = "validate"
  /\ Len(msg.fields) = 2
  /\ last.result = ValidationFailed
  /\ Len(SequenceEntries(last.log)) = 2
  /\ SequenceEntries(last.log)[1].pos0 > start_offset
  /\ last.pos = start_offset
  /\ last.left = declared_length

(***************************************************************************)
(* C12.  Message::validate returns OK only if the fields consumed exactly  *)
(* the declared length, left = 0 after the last field: a message whose     *)
(* declared length is larger than the bytes its fields occupy is never     *)
(* accepted.  Stated for the messages that have fields and the buffers     *)
(* that hold the whole declared payload.                                   *)
(***************************************************************************)
C12_LengthConsistent ==
  (/\ last.op = "validate"
   /\ last.result = ValidationOK
   /\ msg.fields # <<>>
   /\ InBuffer(data, start_offset, declared_length))
    => last.left = 0

(***************************************************************************)
(* C13.  Repeated::validate returns NeedMoreData, retaining no element and *)
(* leaving pos and left unchanged, when fewer than left bytes of the       *)
(* buffer lie at pos; otherwise it validates elements until left is 0 or   *)
(* an element is not OK, retains the elements that validated OK and        *)
(* returns OK.  Stated for the first validate of an instance, whose        *)
(* Repeated starts empty; the elements are Ints of width w.                *)
(***************************************************************************)
\* The bytes of the buffer that lie at pos and after it.
BytesAt(pos) == IF pos <= length(data) THEN length(data) - pos ELSE 0

\* The width of the elements of the Repeated that is the message's last field.
RepeatedElemWidth == msg.fields[Len(msg.fields)].of.w

C13_RepeatedValidate ==
  (last.op = "validate" /\ nvalidate = 1)
    => \A i \in 1..Len(last.log) :
         LET e == last.log[i]
         IN e.f = "Repeated"
              => IF BytesAt(e.pos0) < e.left0
                 THEN /\ e.result = ValidationNeedMoreData
                      /\ e.kept = 0
                      /\ e.pos1 = e.pos0 /\ e.left1 = e.left0
                 ELSE /\ e.result = ValidationOK
                      /\ e.kept * RepeatedElemWidth = e.pos1 - e.pos0
                      /\ e.left0 - e.left1 = e.pos1 - e.pos0
                      /\ \/ e.left1 = 0
                         \/ /\ i > 1
                            /\ last.log[i - 1].f = "Int"
                            /\ last.log[i - 1].result # ValidationOK

(***************************************************************************)
(* C14.  Retrying terminates: once the buffer holds at least               *)
(* start_offset + length bytes a validate never returns NeedMoreData, and  *)
(* the caller that retries as the buffer grows has then, or gets,          *)
(* OK or Failed.                                                           *)
(***************************************************************************)
BufferComplete == length(data) >= start_offset + declared_length

C14_RetryTerminates ==
  /\ []((last.op = "validate" /\ BufferComplete)
          => last.result \in {ValidationOK, ValidationFailed})
  /\ (BufferComplete ~> returned \in {ValidationOK, ValidationFailed})

\* A retry on the complete buffer returned Failed after an earlier validate
\* had returned NeedMoreData.
C14_Witness ==
  /\ last.op = "validate"
  /\ nvalidate >= 2
  /\ BufferComplete
  /\ msg.fields # <<>>
  /\ last.result = ValidationFailed

(***************************************************************************)
(* C15.  Terminal outcomes are stable under buffer growth: when a validate *)
(* has returned OK or Failed, the next validate of the same start_offset   *)
(* and length, on the same buffer or on one extended by appended bytes,    *)
(* returns the same result.  Stated for the calls that peek no count       *)
(* outside the buffer.                                                     *)
(***************************************************************************)
C15_TerminalStable ==
  [][(/\ ValidateStep
      /\ last'.result # "crash"
      /\ returned \in {ValidationOK, ValidationFailed}
      /\ ~PeekedOutside(last'.log))
       => last'.result = returned]_vars

(***************************************************************************)
(* C16.  Cursor conservation: in every call a validate makes on a field,   *)
(* and in every call the following read makes, pos + left on entry and on  *)
(* return is the initial value (start_offset + length for validate, length *)
(* for read), pos has not decreased, left has not increased, and left has  *)
(* not been taken below zero.  Stated for start_offset = 0, where pos      *)
(* never lies past the buffer.                                             *)
(***************************************************************************)
Conserved(e, total) ==
  /\ e.pos0 + e.left0 = total
  /\ e.pos1 + e.left1 = total
  /\ e.pos1 >= e.pos0
  /\ e.left1 <= e.left0
  /\ e.left0 >= 0
  /\ e.left1 >= 0

C16_CursorConserved ==
  (start_offset = 0 /\ last.op \in {"validate", "read"})
    => /\ \A i \in 1..Len(last.log) :
            Conserved(last.log[i],
                      IF last.op = "validate" THEN start_offset + declared_length
                      ELSE declared_length)
       /\ last.result \in {ValidationOK, "true"}
            => /\ last.left >= 0
               /\ last.pos + last.left
                    = (IF last.op = "validate" THEN start_offset ELSE 0) + declared_length

(***************************************************************************)
(* C17.  Int<T>::validate changes the cursor only on success: it returns   *)
(* Failed whenever left < sizeof(T), whatever the buffer holds; on Failed  *)
(* and on NeedMoreData pos and left are unchanged; on OK pos is increased  *)
(* and left decreased by exactly sizeof(T).  Stated of Int<T>::validate on *)
(* every buffer as it arrives, for every width, pos and left of the model, *)
(* and of the calls the last validate made on Int fields.                  *)
(***************************************************************************)
IntWidths == {1, 2, 4}

C17_IntValidateFrame ==
  /\ last.op \in {"none", "receive"}
       => \A w \in IntWidths, pos \in 0..(MaxData + 1), left \in 0..MaxLength :
            LET r == IntValidate(New(IntT(w)), data, pos, left)
            IN /\ left < w => r.result = ValidationFailed
               /\ r.result \in {ValidationFailed, ValidationNeedMoreData}
                    => r.pos = pos /\ r.left = left
               /\ r.result = ValidationOK
                    => r.pos = pos + w /\ r.left = left - w /\ left >= w
               /\ (left >= w /\ ~InBuffer(data, pos, w) /\ pos <= length(data))
                    => r.result = ValidationNeedMoreData
  /\ last.op = "validate"
       => \A i \in 1..Len(last.log) :
            LET e == last.log[i]
            IN e.f = "Int"
                 => /\ e.left0 = 0 => e.result = ValidationFailed
                    /\ e.result \in {ValidationFailed, ValidationNeedMoreData}
                         => e.pos1 = e.pos0 /\ e.left1 = e.left0
                    /\ e.result = ValidationOK
                         => /\ e.pos1 - e.pos0 = e.left0 - e.left1
                            /\ e.pos1 - e.pos0 \in IntWidths
                            /\ e.left1 >= 0

\* An Int16 was refused with Failed for left = 1 although the buffer held its
\* two bytes.
C17_Witness ==
  /\ last.op = "validate"
  /\ Len(msg.fields) = 1
  /\ msg.fields[1].k = "Int"
  /\ msg.fields[1].w = 2
  /\ declared_length = 1
  /\ InBuffer(data, start_offset, 2)
  /\ last.result = ValidationFailed
  /\ last.pos = start_offset
  /\ last.left = declared_length

(***************************************************************************)
(* C18.  In the read that follows a validate which returned OK on the same *)
(* buffer, the count Array::read re-reads at its read position never       *)
(* exceeds the number of elements the array holds, whatever start_offset   *)
(* validate was given: no element index is out of bounds and no byte       *)
(* beyond the buffer is peeked.  Stated for the first validate of an       *)
(* instance and the buffers that hold the whole declared payload.          *)
(***************************************************************************)
C18_ArrayReadInBounds ==
  [][(/\ last.op = "validate"
      /\ last.result = ValidationOK
      /\ nvalidate = 1
      /\ InBuffer(data, start_offset, declared_length)
      /\ last'.op = "read")
       => /\ last'.result = "true"
          /\ \A i \in 1..Len(last'.log) :
               LET e == last'.log[i]
               IN e.f = "Array"
                    => /\ InBuffer(data, e.pos0, SizeofU16)
                       /\ e.size <= e.kept]_vars

====
